---- MODULE Spec2Model ----
(***************************************************************************)
(* Mutation engine of the EC2 manager (src/src/server/manager.ts): the     *)
(* operations addDomain, removeDomain, updateDomain and replaceConfigFile  *)
(* over the two Apache configuration files, with every external command    *)
(* (sudo cp, sudo chmod, apachectl configtest, systemctl reload, certbot)  *)
(* a nondeterministic choice over its outcomes.                            *)
(*                                                                         *)
(* A file's text is a sequence of tokens, one token per line of text that  *)
(* the regular expressions of manager.ts and parser.ts can tell apart:     *)
(*   nl     "\n"                      crnl   "\r\n"                        *)
(*   open   "<VirtualHost *:p>\n"     close  "</VirtualHost>"              *)
(*   sn     "    ServerName n\n"      csn    "    # ServerName n\n"        *)
(*   pph    "    ProxyPreserveHost On\n"                                   *)
(*   pp     "    ProxyPass / <url>:p/\n"  where <url> is "http://127.0.0.1"*)
(*          (d = UrlPath) or the scheme-less "127.0.0.1" (d = NoPath)      *)
(*   ppr    "    ProxyPassReverse / <url>:p/\n" (same two forms)           *)
(*   dr     "    DocumentRoot d\n"    diro   "    <Directory \"d\">\n"     *)
(*   dirb   the three option lines of the static template                  *)
(*   dirc   "    </Directory>\n"      dindex "    DirectoryIndex ...\n"    *)
(*   elog   "    ErrorLog .../n-error.log\n"                               *)
(*   clog   "    CustomLog .../n-access.log combined\n"                    *)
(*   sslcf  "    SSLCertificateFile /etc/letsencrypt/live/n/...\n"         *)
(*   hdl    "    AddHandler <d> .php\n", d the handler's name              *)
(*   phpd   "    php_value memory_limit 128M\n"                            *)
(* A domain name is the sequence of its labels, a path the sequence of its *)
(* segments with a flag for the leading "/".                               *)
(*                                                                         *)
(* Specifications:                                                         *)
(*   Spec            the operations one at a time, and the reads           *)
(*   ReadSpec        the reads, loadSSLInfo and groupDomains               *)
(*   ValidationSpec  validateDocumentRoot                                  *)
(*   ParserSpec      detectDomainType, extractVirtualHostBlocks and        *)
(*                   parseDirectives (line by line)                        *)
(*   ConcurrentSpec  two addDomain calls interleaving at their awaits      *)
(*   LogSpec         the logger's in-memory buffer                         *)
(***************************************************************************)
EXTENDS Integers, Sequences, FiniteSets, TLC

\* files: the two configuration files on disk.
\* last:  the record of the last operation that ran: its request, the files
\*        before it, its result, the commands it ran with their outcomes.
\* nops:  the number of operations run so far.
\* renewal: the certificate tool's renewal metadata, per domain the expiry
\*        time of its expiry_date line.
\* call:  the last read or pure function applied, with its argument and
\*        what it returned.
\* proc:  the calls of addDomain in flight at the same time, each with the
\*        await it stands at, its staging path and the content it staged.
\* tmpfs: the temporary files under /tmp, by the clock value in their name.
\* clock: Date.now().
\* overlap: whether a call was started while another was in flight.
\* logs:  the logger's in-memory buffer.
\* logged: the number of entries written so far, and how many had been
\*        written when the buffer was last cleared.
VARIABLES files, last, nops, renewal, call, proc, tmpfs, clock, overlap, logs, logged

engineVars == <<proc, tmpfs, clock, overlap>>

logVars == <<logs, logged>>

vars == <<files, last, nops, renewal, call, proc, tmpfs, clock, overlap, logs, logged>>

\* ------------------------------------------------------------- bounds
\* addDomain is enabled while the plaintext file holds fewer blocks.
MaxBlocks == 3

\* Operations in one run.
MaxOps == 2

\* Segments of a path given to validateDocumentRoot.
MaxSegs == 3

\* Pieces of a text given to extractVirtualHostBlocks.
MaxParts == 3

\* Lines of a block interior given to parseDirectives.
MaxLines == 4

\* Date.now() runs from 0 to MaxClock while the calls are in flight.
MaxClock == 1

\* Entries written to the log in one run.
MaxWrites == 502

\* ------------------------------------------------------------- text
NoName == <<>>

NoPath == [abs |-> FALSE, segs |-> <<>>]

\* The text "http://127.0.0.1" of a ProxyPass URL, kept in the d field.
UrlPath == [abs |-> FALSE, segs |-> <<"http:", "", "127.0.0.1">>]

\* What `${dto.documentRoot}` prints when the field is missing.
UndefPath == [abs |-> FALSE, segs |-> <<"undefined">>]

AbsPath(segs) == [abs |-> TRUE, segs |-> segs]

Tok(k, n, p, d) == [k |-> k, n |-> n, p |-> p, d |-> d]

NL == Tok("nl", NoName, 0, NoPath)

CRNL == Tok("crnl", NoName, 0, NoPath)

Open(p) == Tok("open", NoName, p, NoPath)

Close == Tok("close", NoName, 0, NoPath)

SN(n) == Tok("sn", n, 0, NoPath)

CSN(n) == Tok("csn", n, 0, NoPath)

Min(S) == CHOOSE x \in S : \A y \in S : x <= y

IsPrefix(a, b) == Len(a) <= Len(b) /\ SubSeq(b, 1, Len(a)) = a

HasKind(c, k) == \E i \in 1..Len(c) : c[i].k = k

CountKind(c, k) == Cardinality({i \in 1..Len(c) : c[i].k = k})

\* ------------------------------------------------------------- templates
generateNodeVirtualHost(serverName, port) ==
    << NL, Open(80), SN(serverName),
       Tok("pph", NoName, 0, NoPath),
       Tok("pp", NoName, port, UrlPath),
       Tok("ppr", NoName, port, UrlPath),
       Tok("elog", serverName, 0, NoPath),
       Tok("clog", serverName, 0, NoPath),
       Close, NL >>

generateStaticVirtualHost(serverName, documentRoot) ==
    << NL, Open(80), SN(serverName),
       Tok("dr", NoName, 0, documentRoot),
       Tok("diro", NoName, 0, documentRoot),
       Tok("dirb", NoName, 0, NoPath),
       Tok("dirc", NoName, 0, NoPath),
       Tok("dindex", NoName, 0, NoPath),
       Tok("elog", serverName, 0, NoPath),
       Tok("clog", serverName, 0, NoPath),
       Close, NL >>

\* ------------------------------------------------------------- validation
\* Labels that match [a-z0-9](?:[a-z0-9-]{0,61}[a-z0-9])? ; "-bad" does not.
GoodLabels == {"example", "api", "com", "br", "org", "shop"}

\* /^(?:label\.)+tld$/i : at least two labels, each well-formed.
validateDomain(domain) ==
    /\ Len(domain) >= 2
    /\ \A i \in 1..Len(domain) : domain[i] \in GoodLabels

forbiddenPaths ==
    { <<"etc">>, <<"root">>, <<"sys">>, <<"proc">>, <<"dev">>, <<"boot">>,
      <<"bin">>, <<"sbin">>, <<"usr", "bin">>, <<"usr", "sbin">> }

\* Segments whose text contains "..".
DotDotSegs == {"..", "a..b"}

validateDocumentRoot(path) ==
    /\ path.abs
    /\ \A i \in 1..Len(path.segs) : path.segs[i] \notin DotDotSegs
    /\ \A fb \in forbiddenPaths : ~IsPrefix(fb, path.segs)

\* ------------------------------------------------------------- parser
\* /<\s*VirtualHost\b([^>]*)>([\s\S]*?)<\/\s*VirtualHost\s*>/gi : from each
\* opening tag to the first closing tag after it; an opening tag with no
\* closing tag after it yields nothing.
RECURSIVE ExtractFrom(_, _)
ExtractFrom(c, from) ==
    LET S == {s \in from..Len(c) : c[s].k = "open"
                  /\ \E e \in (s + 1)..Len(c) : c[e].k = "close"}
    IN  IF S = {} THEN << >>
        ELSE LET s == Min(S)
                 e == Min({x \in (s + 1)..Len(c) : c[x].k = "close"})
             IN  << SubSeq(c, s, e) >> \o ExtractFrom(c, e + 1)

\* The rawConfig of every block of a file's text, in order.
extractVirtualHostBlocks(c) == ExtractFrom(c, 1)

\* ServerName first (comment lines are stripped by parseDirectives, so a csn
\* token declares nothing); no block of the model carries a ServerAlias.
extractAllDomains(block) ==
    LET S == {i \in 1..Len(block) : block[i].k = "sn"}
    IN  IF S = {} THEN << >> ELSE << block[Min(S)].n >>

Declares(block, name) ==
    \E i \in 1..Len(extractAllDomains(block)) : extractAllDomains(block)[i] = name

\* ------------------------------------------------------------- parseDirectives
\* The interior of a block line by line, each line as parseDirectives sees
\* it after the comment is cut and the line trimmed:
\*   blank  nothing left
\*   dir    matches /^([A-Za-z][A-Za-z0-9_-]*)(?:\s+(.*))?$/ : a word, then
\*          white space and the value
\*   text   anything else (a line starting with "/", "+", a quote, ...)
\*   nopen  "<Name ...>"      nclose  "</Name>"
\* frag is the words of the value (of the whole line for text and tags)
\* without the trailing backslash, cont tells whether the line ends in one.
\* Names are in lower case, as addDirective stores them.
Line(k, name, frag, cont) == [k |-> k, name |-> name, frag |-> frag, cont |-> cont]

\* The loop over the lines: cur is currentDirective ("" for null), val is
\* currentValue, out the calls of addDirective so far as <<key, value>>.
RECURSIVE LineLoop(_, _, _, _, _)
LineLoop(lines, i, cur, val, out) ==
    LET flushed == IF cur # "" THEN Append(out, <<cur, val>>) ELSE out
    IN  IF i > Len(lines) THEN flushed
        ELSE LET l == lines[i]
             IN  CASE l.k = "blank" -> LineLoop(lines, i + 1, "", << >>, flushed)
                   [] l.k = "dir" ->
                        IF l.cont
                        THEN LineLoop(lines, i + 1, l.name, l.frag, flushed)
                        ELSE LineLoop(lines, i + 1, "", << >>,
                                      Append(flushed, <<l.name, l.frag>>))
                   [] OTHER ->
                        IF cur = "" THEN LineLoop(lines, i + 1, cur, val, out)
                        ELSE IF l.cont
                             THEN LineLoop(lines, i + 1, cur, val \o l.frag, out)
                             ELSE LineLoop(lines, i + 1, "", << >>,
                                           Append(out, <<cur, val \o l.frag>>))

\* /<([A-Za-z]+)\b[^>]*>([\s\S]*?)<\/\1\s*>/gi : the lines between each
\* opening tag and the first closing tag of the same name after it.
RECURSIVE NestedFrom(_, _)
NestedFrom(lines, from) ==
    LET closes(s) == {e \in (s + 1)..Len(lines) :
                         lines[e].k = "nclose" /\ lines[e].name = lines[s].name}
        S == {s \in from..Len(lines) : lines[s].k = "nopen" /\ closes(s) # {}}
    IN  IF S = {} THEN << >>
        ELSE << SubSeq(lines, Min(S) + 1, Min(closes(Min(S))) - 1) >>
                 \o NestedFrom(lines, Min(closes(Min(S))) + 1)

\* parseDirectives: the loop over all the lines, then the directives of
\* every nested block's interior, parsed the same way and added again.
RECURSIVE parseDirectives(_)
RECURSIVE MergeNested(_)
parseDirectives(lines) ==
    LineLoop(lines, 1, "", << >>, << >>) \o MergeNested(NestedFrom(lines, 1))

MergeNested(inners) ==
    IF inners = << >> THEN << >>
    ELSE parseDirectives(Head(inners)) \o MergeNested(Tail(inners))

\* ------------------------------------------------------------- regular expressions of manager.ts
\* A token whose text holds "ServerName <n>" followed by white space.
HasServerNameText(t) == t.k \in {"sn", "csn"}

\* `<VirtualHost[^>]*>\s*?[\s\S]*?ServerName\s+NAME(?:\s|\n)[\s\S]*?<\/VirtualHost>\s*?`
\* with flags gm, replaced by '': the leftmost opening tag after which the
\* text "ServerName NAME" occurs with a closing tag after it; the match runs
\* lazily to the first such ServerName and from there to the first closing
\* tag; the search resumes after the match.
RECURSIVE RegexRemoveFrom(_, _, _)
RegexRemoveFrom(c, from, name) ==
    LET J(s) == {j \in (s + 1)..Len(c) : HasServerNameText(c[j]) /\ c[j].n = name
                    /\ \E e \in (j + 1)..Len(c) : c[e].k = "close"}
        S == {s \in from..Len(c) : c[s].k = "open" /\ J(s) # {}}
    IN  IF S = {} THEN SubSeq(c, from, Len(c))
        ELSE LET s == Min(S)
                 j == Min(J(s))
                 e == Min({x \in (j + 1)..Len(c) : c[x].k = "close"})
             IN  SubSeq(c, from, s - 1) \o RegexRemoveFrom(c, e + 1, name)

RegexRemove(c, name) == RegexRemoveFrom(c, 1, name)

\* `ProxyPass \/[^:]+:(\d+)` : the first ":" after "ProxyPass /" must be
\* followed by digits; in "http://127.0.0.1:p/" it is followed by "//".
PortRegexMatches(t, kind) == t.k = kind /\ t.d = NoPath

\* `DocumentRoot ([^\n]+)` and `<Directory "([^"]+)` match every such line.
PathRegexMatches(t, kind) == t.k = kind

\* `(ServerName NAME[\s\S]*?<text of kind>)(<value>)` with flag i and no g:
\* the first occurrence of the text "ServerName NAME" (nothing bounds the
\* name on its right, so a longer name matches too), then lazily the first
\* token after it that the tail of the expression matches. The index of that
\* token, or 0 when the expression does not match.
RegexFind(c, name, kind, isPort) ==
    LET Matches(t) == IF isPort THEN PortRegexMatches(t, kind)
                      ELSE PathRegexMatches(t, kind)
        S == {s \in 1..Len(c) : HasServerNameText(c[s]) /\ IsPrefix(name, c[s].n)
                  /\ \E j \in (s + 1)..Len(c) : Matches(c[j])}
    IN  IF S = {} THEN 0
        ELSE Min({j \in (Min(S) + 1)..Len(c) : Matches(c[j])})

ReplacePort(c, name, kind, port) ==
    LET j == RegexFind(c, name, kind, TRUE)
    IN  IF j = 0 THEN c ELSE [c EXCEPT ![j].p = port]

ReplacePath(c, name, kind, path) ==
    LET j == RegexFind(c, name, kind, FALSE)
    IN  IF j = 0 THEN c ELSE [c EXCEPT ![j].d = path]

\* newline normalisation of an uploaded text
NormalizeNewlines(c) == [i \in 1..Len(c) |-> IF c[i].k = "crnl" THEN NL ELSE c[i]]

\* ------------------------------------------------------------- state
\* VHOST_HTTP_PATH and VHOST_HTTPS_PATH
Paths == {"http", "https"}

Absent == [ex |-> FALSE, c |-> << >>]

File(c) == [ex |-> TRUE, c |-> c]

\* One external command or file write of an operation, with its outcome.
Cmd(c, f, ok) == [c |-> c, f |-> f, ok |-> ok]

\* `dto.port` / `dto.documentRoot` left out of the request.
UndefPort == 0 - 1

\* ------------------------------------------------------------- outcomes of the external commands
\* sudo cp + sudo chmod of writeProtectedFile and of the commit step
WOutcomes == {"ok", "cpFail", "chmodFail"}

\* Patterns of removeDomain's isSSLCertError.
SSLPatterns == {"SSLCertificateFile", "does not exist or is empty", "/etc/letsencrypt/"}

NoTest == [ran |-> FALSE, marker |-> FALSE, exit0 |-> FALSE, text |-> {}]

\* apachectl configtest: whether its output holds "Syntax OK", whether it
\* exits 0, and (when it fails) which of the patterns its output holds.
TestOutcomesPlain ==
    {[ran |-> TRUE, marker |-> m, exit0 |-> x, text |-> {}] : m \in BOOLEAN, x \in BOOLEAN}

TestOutcomes ==
    TestOutcomesPlain \cup
    {[ran |-> TRUE, marker |-> m, exit0 |-> FALSE, text |-> {p}] :
        m \in BOOLEAN, p \in SSLPatterns}

\* No read and no pure function applied yet, or the result handed over.
NoCall == [fn |-> "none", arg |-> << >>, out |-> << >>]

\* ------------------------------------------------------------- results
R(fs, res, failed, carries, cmds, test, checked) ==
    [fs |-> fs, res |-> res, failed |-> failed, carries |-> carries,
     cmds |-> cmds, test |-> test, checked |-> checked]

\* An error raised before any command ran.
Rejected(fs, res) == R(fs, res, "", {}, << >>, NoTest, fs)

\* execCommand's wrapped error: "Comando falhou: <command>" with the
\* command's STDOUT and STDERR.
Failed(fs, command, cmds, test, checked) ==
    R(fs, "ComandoFalhou", command, {"cmdOutput"}, cmds, test, checked)

\* No request payload (removeDomain, replaceConfigFile).
NoReq == [type |-> "", port |-> UndefPort, documentRoot |-> UndefPath]

\* An operation runs from the idle engine (operations run one at a time) and
\* leaves its record in `last` until the route handler has answered.
Finish(op, name, ftype, upload, req, r) ==
    /\ last.op = "none"
    /\ nops < MaxOps
    /\ nops' = nops + 1
    /\ files' = r.fs
    /\ call' = NoCall
    /\ UNCHANGED << renewal, engineVars, logVars >>
    /\ last' = [op |-> op, name |-> name, ftype |-> ftype, upload |-> upload,
                req |-> req, pre |-> files, res |-> r.res, failed |-> r.failed,
                carries |-> r.carries, cmds |-> r.cmds, test |-> r.test,
                checked |-> r.checked]

\* ------------------------------------------------------------- writeProtectedFile
\* writeProtectedFile whose copy never reaches the target.
writeProtectedFileNoCopy(fs, f, content, w) ==
    [fs |-> fs,
     thrown |-> w # "ok",
     failed |-> IF w = "cpFail" THEN "cpCommit" ELSE IF w = "chmodFail" THEN "chmod" ELSE "",
     cmds |-> << Cmd("writeTemp", f, TRUE), Cmd("cpCommit", f, w # "cpFail") >>
              \o (IF w = "cpFail" THEN << >> ELSE << Cmd("chmod", f, w = "ok") >>)
              \o << Cmd("rmTemp", f, TRUE) >>]

\* writeProtectedFile with the removal after the try block instead of in
\* its finally: a failed copy or chmod leaves the temporary file behind.
writeProtectedFileNoFinally(fs, f, content, w) ==
    [fs |-> IF w = "cpFail" THEN fs ELSE [fs EXCEPT ![f] = File(content)],
     thrown |-> w # "ok",
     failed |-> IF w = "cpFail" THEN "cpCommit" ELSE IF w = "chmodFail" THEN "chmod" ELSE "",
     cmds |-> << Cmd("writeTemp", f, TRUE), Cmd("cpCommit", f, w # "cpFail") >>
              \o (IF w = "cpFail" THEN << >> ELSE << Cmd("chmod", f, w = "ok") >>)
              \o (IF w = "ok" THEN << Cmd("rmTemp", f, TRUE) >> ELSE << >>)]

\* The temporary file is written, copied over the target, the target's mode
\* set, and the temporary file removed in the finally block; the copy, once
\* it succeeded, stays in place when chmod fails.
writeProtectedFile(fs, f, content, w) ==
    [fs |-> IF w = "cpFail" THEN fs ELSE [fs EXCEPT ![f] = File(content)],
     thrown |-> w # "ok",
     failed |-> IF w = "cpFail" THEN "cpCommit" ELSE IF w = "chmodFail" THEN "chmod" ELSE "",
     cmds |-> << Cmd("writeTemp", f, TRUE), Cmd("cpCommit", f, w # "cpFail") >>
              \o (IF w = "cpFail" THEN << >> ELSE << Cmd("chmod", f, w = "ok") >>)
              \o << Cmd("rmTemp", f, TRUE) >>]

\* ------------------------------------------------------------- addDomain
\* The new text with the current text left out.
AppendConfigOverwriting(currentConfig, vhostConfig) == << NL >> \o vhostConfig

\* currentConfig + '\n' + vhostConfig
AppendConfig(currentConfig, vhostConfig) == currentConfig \o << NL >> \o vhostConfig

AddDomain(dto) ==
    LET REJ(res) == Finish("add", dto.serverName, "http", << >>,
                       [type |-> dto.type, port |-> dto.port,
                        documentRoot |-> dto.documentRoot], Rejected(files, res))
    IN
    IF ~validateDomain(dto.serverName) THEN REJ("DominioInvalido")
    ELSE IF dto.type = "node" /\ dto.port \in {UndefPort, 0} THEN REJ("PortaObrigatoria")
    ELSE IF dto.type = "static" /\ dto.documentRoot = UndefPath
        THEN REJ("DocumentRootObrigatorio")
    ELSE IF dto.type = "static" /\ ~validateDocumentRoot(dto.documentRoot)
        THEN REJ("DocumentRootInvalido")
    ELSE IF dto.type = "node" /\ (dto.port < 1 \/ dto.port > 65535) THEN REJ("PortaInvalida")
    ELSE IF dto.type = "node" /\ dto.port < 1024 THEN REJ("PortaReservada")
    ELSE
    LET vhostConfig == IF dto.type = "node"
                       THEN generateNodeVirtualHost(dto.serverName, dto.port)
                       ELSE generateStaticVirtualHost(dto.serverName, dto.documentRoot)
        currentConfig == IF files["http"].ex THEN files["http"].c ELSE << >>
        newConfig == AppendConfig(currentConfig, vhostConfig)
        FIN(r) == Finish("add", dto.serverName, "http", << >>,
                        [type |-> dto.type, port |-> dto.port,
                         documentRoot |-> dto.documentRoot], r)
    IN
    \E w \in WOutcomes :
      LET wr == writeProtectedFile(files, "http", newConfig, w) IN
      IF wr.thrown THEN FIN(Failed(wr.fs, wr.failed, wr.cmds, NoTest, wr.fs))
      ELSE
      \E t \in TestOutcomesPlain :
        LET cmds1 == Append(wr.cmds, Cmd("configtest", "", t.exit0)) IN
        \* await execCommand('apachectl configtest') raises iff the exit is not 0
        IF ~t.exit0 THEN FIN(Failed(wr.fs, "configtest", cmds1, t, wr.fs))
        ELSE
        \E rl \in BOOLEAN :
          LET cmds2 == Append(cmds1, Cmd("reload", "", rl)) IN
          IF ~rl THEN FIN(Failed(wr.fs, "reload", cmds2, t, wr.fs))
          ELSE
          \* obtainSSL: the name was validated above; certbot runs
          \E cb \in BOOLEAN :
            LET cmds3 == Append(cmds2, Cmd("certbot", "", cb)) IN
            IF ~cb THEN FIN(Failed(wr.fs, "certbot", cmds3, t, wr.fs))
            ELSE FIN(R(wr.fs, "ok", "", {}, cmds3, t, wr.fs))

\* ------------------------------------------------------------- removeDomain
removeFromFile(fs, f, serverName, w) ==
    IF ~fs[f].ex
    THEN [fs |-> fs, thrown |-> FALSE, failed |-> "", removed |-> FALSE, cmds |-> << >>]
    ELSE LET content == fs[f].c
             newContent == RegexRemove(content, serverName)
         IN  IF newContent # content
             THEN LET wr == writeProtectedFile(fs, f, newContent, w)
                  IN  [fs |-> wr.fs, thrown |-> wr.thrown, failed |-> wr.failed,
                       removed |-> ~wr.thrown, cmds |-> wr.cmds]
             ELSE [fs |-> fs, thrown |-> FALSE, failed |-> "", removed |-> FALSE,
                   cmds |-> << >>]

\* The outcomes of removeFromFile's write, when it writes at all.
WritesOf(fs, f, serverName) ==
    IF fs[f].ex /\ RegexRemove(fs[f].c, serverName) # fs[f].c THEN WOutcomes ELSE {"ok"}

\* isSSLCertError with only its first pattern.
isSSLCertErrorFirstPatternOnly(errorMsg) == "SSLCertificateFile" \in errorMsg

isSSLCertError(errorMsg) ==
    \/ "SSLCertificateFile" \in errorMsg
    \/ "does not exist or is empty" \in errorMsg
    \/ "/etc/letsencrypt/" \in errorMsg

RemoveDomain(serverName) ==
    LET FIN(r) == Finish("remove", serverName, "", << >>, NoReq, r) IN
    IF ~validateDomain(serverName) THEN FIN(Rejected(files, "DominioInvalido"))
    ELSE
    \E w1 \in WritesOf(files, "http", serverName) :
      LET r1 == removeFromFile(files, "http", serverName, w1) IN
      IF r1.thrown THEN FIN(Failed(r1.fs, r1.failed, r1.cmds, NoTest, r1.fs))
      ELSE
      \E w2 \in WritesOf(r1.fs, "https", serverName) :
        LET r2 == removeFromFile(r1.fs, "https", serverName, w2)
            cmds2 == r1.cmds \o r2.cmds
        IN
        IF r2.thrown THEN FIN(Failed(r2.fs, r2.failed, cmds2, NoTest, r2.fs))
        ELSE IF ~(r1.removed \/ r2.removed)
            THEN FIN(R(r2.fs, "DominioNaoEncontrado", "", {}, cmds2, NoTest, r2.fs))
        ELSE
        \E t \in TestOutcomes :
          LET cmds3 == Append(cmds2, Cmd("configtest", "", t.exit0)) IN
          IF ~t.exit0 /\ ~isSSLCertError(t.text)
          THEN FIN(Failed(r2.fs, "configtest", cmds3, t, r2.fs))
          ELSE
          \E rl \in BOOLEAN :
            LET cmds4 == Append(cmds3, Cmd("reload", "", rl)) IN
            IF ~rl THEN FIN(Failed(r2.fs, "reload", cmds4, t, r2.fs))
            ELSE FIN(R(r2.fs, "ok", "", {}, cmds4, t, r2.fs))

\* ------------------------------------------------------------- updateDomain
\* The four replacements of updateDomain, in order.
UpdatedContent(content, serverName, dto) ==
    LET c1 == IF dto.port # UndefPort
              THEN ReplacePort(ReplacePort(content, serverName, "pp", dto.port),
                               serverName, "ppr", dto.port)
              ELSE content
    IN  IF dto.documentRoot # UndefPath
        THEN ReplacePath(ReplacePath(c1, serverName, "dr", dto.documentRoot),
                         serverName, "diro", dto.documentRoot)
        ELSE c1

UpdateDomain(serverName, dto) ==
    LET FIN(r) == Finish("update", serverName, "http", << >>,
                        [type |-> "", port |-> dto.port,
                         documentRoot |-> dto.documentRoot], r) IN
    IF ~validateDomain(serverName) THEN FIN(Rejected(files, "DominioInvalido"))
    ELSE IF dto.port # UndefPort /\ (dto.port < 1 \/ dto.port > 65535)
        THEN FIN(Rejected(files, "PortaInvalida"))
    ELSE IF dto.port # UndefPort /\ dto.port < 1024
        THEN FIN(Rejected(files, "PortaReservada"))
    ELSE IF dto.documentRoot # UndefPath /\ ~validateDocumentRoot(dto.documentRoot)
        THEN FIN(Rejected(files, "DocumentRootInvalido"))
    ELSE IF ~files["http"].ex THEN FIN(Rejected(files, "ArquivoNaoEncontrado"))
    ELSE
    LET content == files["http"].c
        newContent == UpdatedContent(content, serverName, dto)
    IN
    IF newContent = content THEN FIN(Rejected(files, "NenhumaAlteracao"))
    ELSE
    \E w \in WOutcomes :
      LET wr == writeProtectedFile(files, "http", newContent, w) IN
      IF wr.thrown THEN FIN(Failed(wr.fs, wr.failed, wr.cmds, NoTest, wr.fs))
      ELSE
      \E t \in TestOutcomesPlain :
        LET cmds1 == Append(wr.cmds, Cmd("configtest", "", t.exit0)) IN
        IF ~t.exit0 THEN FIN(Failed(wr.fs, "configtest", cmds1, t, wr.fs))
        ELSE
        \E rl \in BOOLEAN :
          LET cmds2 == Append(cmds1, Cmd("reload", "", rl)) IN
          IF ~rl THEN FIN(Failed(wr.fs, "reload", cmds2, t, wr.fs))
          ELSE FIN(R(wr.fs, "ok", "", {}, cmds2, t, wr.fs))

\* ------------------------------------------------------------- replaceConfigFile
ReplaceConfigFile(type, content) ==
    LET FIN(r) == Finish("replace", NoName, type, content, NoReq, r)
        rm == Cmd("rmTemp", type, TRUE)
    IN
    IF ~(HasKind(content, "open") /\ HasKind(content, "close"))
    THEN FIN(Rejected(files, "ArquivoInvalido"))
    ELSE
    LET cmds0 == << Cmd("writeTemp", type, TRUE) >> IN
    \* backup of the current file, if it exists
    \E bk \in (IF files[type].ex THEN BOOLEAN ELSE {TRUE}) :
      LET existed == files[type].ex
          cmds1 == IF existed THEN Append(cmds0, Cmd("cpBackup", type, bk)) ELSE cmds0
          \* existsSync(backupPath) from here on
          backup == existed /\ bk
      IN
      IF existed /\ ~bk
      THEN FIN(R(files, "FalhaBackup", "cpBackup", {"cmdOutput"}, Append(cmds1, rm),
                 NoTest, files))
      ELSE
      \* commit: sudo cp, sudo chmod
      \E w \in WOutcomes :
        LET fs1 == IF w = "cpFail" THEN files ELSE [files EXCEPT ![type] = File(content)]
            cmds2 == cmds1 \o << Cmd("cpCommit", type, w # "cpFail") >>
                     \o (IF w = "cpFail" THEN << >> ELSE << Cmd("chmod", type, w = "ok") >>)
        IN
        IF w # "ok"
        THEN FIN(R(fs1, "FalhaCopiar", IF w = "cpFail" THEN "cpCommit" ELSE "chmod",
                   {"cmdOutput"}, Append(cmds2, rm), NoTest, fs1))
        ELSE
        \E t \in TestOutcomesPlain :
          LET cmds3 == Append(cmds2, Cmd("configtest", "", t.exit0))
              \* validationOutput.includes('Syntax OK')
              isValid == t.marker
          IN
          IF ~isValid
          THEN \E sv \in BOOLEAN, rs \in (IF backup THEN BOOLEAN ELSE {TRUE}) :
                 LET cmds4 == Append(cmds3, Cmd("cpError", type, sv))
                     cmds5 == IF backup THEN Append(cmds4, Cmd("cpRestore", type, rs))
                              ELSE cmds4
                     fs2 == IF backup /\ rs THEN [fs1 EXCEPT ![type] = files[type]]
                            ELSE fs1
                 IN  FIN(R(fs2, "ValidacaoFalhou", "configtest",
                           {"validationOutput", "errorPath"}, Append(cmds5, rm), t, fs1))
          ELSE
          \E rl \in BOOLEAN :
            LET cmds4 == Append(cmds3, Cmd("reload", "", rl)) IN
            IF rl THEN FIN(R(fs1, "ok", "", {"validationOutput"}, Append(cmds4, rm), t, fs1))
            ELSE
            \E rs \in (IF backup THEN BOOLEAN ELSE {FALSE}) :
            \E rl2 \in (IF backup /\ rs THEN BOOLEAN ELSE {TRUE}) :
              LET cmds5 == IF backup THEN Append(cmds4, Cmd("cpRestore", type, rs))
                           ELSE cmds4
                  cmds6 == IF backup /\ rs THEN Append(cmds5, Cmd("reload", "", rl2))
                           ELSE cmds5
                  fs2 == IF backup /\ rs THEN [fs1 EXCEPT ![type] = files[type]]
                         ELSE fs1
              IN  FIN(R(fs2, "FalhaRecarregar", "reload", {"cmdOutput"},
                        Append(cmds6, rm), t, fs1))

\* ------------------------------------------------------------- reading the files
\* 1000 * 60 * 60 * 24 ms, with the hour as the unit of time.
HoursPerDay == 24

\* Date.now() at the time of the read.
Now == 100 * HoursPerDay

\* A renewal file with no expiry_date line, or no renewal file.
NoCert == 0 - 1

\* A field the record does not carry (daysUntilExpiry left out).
NoDays == 0 - 1000

NoSSL == [enabled |-> FALSE, status |-> "none", expiresAt |-> NoCert, days |-> NoDays]

\* { enabled: true, status: 'active' }
ActiveSSL == [enabled |-> TRUE, status |-> "active", expiresAt |-> NoCert, days |-> NoDays]

\* The index of the first token of the kind in the block, 0 if there is none.
FirstOfKind(block, k) ==
    LET S == {i \in 1..Len(block) : block[i].k = k}
    IN  IF S = {} THEN 0 ELSE Min(S)

getFirstDirective(block, k) ==
    IF FirstOfKind(block, k) = 0 THEN NoPath ELSE block[FirstOfKind(block, k)].d

\* The value of a handler directive that mentions php, and one that does not.
PhpHandler == [abs |-> FALSE, segs |-> <<"application", "x-httpd-php">>]

CgiHandler == [abs |-> FALSE, segs |-> <<"cgi-script">>]

\* /php/i.test(v) on the value of an addhandler/sethandler directive.
MentionsPhp(t) == t.k = "hdl" /\ t.d = PhpHandler

\* detectDomainType with the PHP test ahead of the ProxyPass test.
detectDomainTypeHandlerFirst(block) ==
    IF HasKind(block, "phpd") \/ \E i \in 1..Len(block) : MentionsPhp(block[i])
    THEN "php"
    ELSE IF HasKind(block, "pp") THEN "node" ELSE "static"

\* directives.has('proxypass') first; then a key starting with php_ or an
\* addhandler/sethandler value with php in it; everything else is static.
detectDomainType(block) ==
    IF HasKind(block, "pp") THEN "node"
    ELSE IF HasKind(block, "phpd") \/ \E i \in 1..Len(block) : MentionsPhp(block[i])
         THEN "php"
         ELSE "static"

\* /(?:https?|wss?):\/\/(?:127\.0\.0\.1|localhost):(\d+)/i over the ProxyPass
\* lines: the scheme-less target does not match.
extractProxyPort(block) ==
    LET S == {i \in 1..Len(block) : block[i].k = "pp" /\ block[i].d = UrlPath}
    IN  IF S = {} THEN UndefPort ELSE block[Min(S)].p

\* sslengine, sslcertificatefile or sslcertificatekeyfile among the
\* directives; no block of the model carries SSLEngine off.
sslEnabled(block) == HasKind(block, "sslcf")

\* analyzeServerName of parser.ts: by the number of labels alone.
analyzeServerName(serverName) ==
    IF Len(serverName) > 2
    THEN [isSubdomain |-> TRUE,
          parentDomain |-> SubSeq(serverName, Len(serverName) - 1, Len(serverName))]
    ELSE [isSubdomain |-> FALSE, parentDomain |-> NoName]

\* createVirtualHost of part_014: the record of a block, not yet classified.
\* id, errorLog and accessLog are functions of serverName and rawConfig and
\* are left out.
createVirtualHost(block) ==
    [serverName |-> extractAllDomains(block)[1],
     type |-> detectDomainType(block),
     port |-> extractProxyPort(block),
     documentRoot |-> getFirstDirective(block, "dr"),
     isSubdomain |-> FALSE,
     parentDomain |-> NoName,
     ssl |-> IF sslEnabled(block) THEN ActiveSSL ELSE NoSSL,
     rawConfig |-> block]

\* createVirtualHost of parser.ts for the block's ServerName (domain and
\* primaryDomain are the same name): classified by analyzeServerName.
createVirtualHostPerName(block) ==
    [createVirtualHost(block) EXCEPT
        !.isSubdomain = analyzeServerName(extractAllDomains(block)[1]).isSubdomain,
        !.parentDomain = analyzeServerName(extractAllDomains(block)[1]).parentDomain]

\* parseApacheConfig: a missing file yields nothing, a block without a
\* ServerName is skipped.
RECURSIVE RecordsOf(_, _)
RecordsOf(blocks, perName) ==
    IF blocks = << >> THEN << >>
    ELSE (IF extractAllDomains(Head(blocks)) = << >> THEN << >>
          ELSE IF perName THEN << createVirtualHostPerName(Head(blocks)) >>
          ELSE << createVirtualHost(Head(blocks)) >>)
         \o RecordsOf(Tail(blocks), perName)

parseApacheConfig(file, perName) ==
    IF ~file.ex THEN << >> ELSE RecordsOf(extractVirtualHostBlocks(file.c), perName)

\* classifySubdomains of part_014: by the names that exist in the list.
classifySubdomains(vhosts) ==
    LET existingDomains == {vhosts[i].serverName : i \in 1..Len(vhosts)}
        parent(v) == SubSeq(v.serverName, Len(v.serverName) - 1, Len(v.serverName))
    IN  [i \in 1..Len(vhosts) |->
            IF Len(vhosts[i].serverName) > 2 /\ parent(vhosts[i]) \in existingDomains
            THEN [vhosts[i] EXCEPT !.isSubdomain = TRUE, !.parentDomain = parent(vhosts[i])]
            ELSE [vhosts[i] EXCEPT !.isSubdomain = FALSE, !.parentDomain = NoName]]

\* The entry with the quotient rounded towards zero instead of down.
SSLInfoAtTruncating(expiry, now) ==
    LET diff == expiry - now
        days == IF diff >= 0 THEN diff \div HoursPerDay
                ELSE 0 - ((0 - diff) \div HoursPerDay)
    IN  [enabled |-> TRUE, expiresAt |-> expiry, days |-> days,
         status |-> IF days < 0 THEN "expired" ELSE IF days <= 7 THEN "expiring"
                    ELSE "active"]

\* The entry loadSSLInfo sets for an expiry_date read at time now:
\* Math.floor((expiry - now) / one day), expired below 0, expiring up to 7.
SSLInfoAt(expiry, now) ==
    LET days == (expiry - now) \div HoursPerDay
    IN  [enabled |-> TRUE, expiresAt |-> expiry, days |-> days,
         status |-> IF days < 0 THEN "expired" ELSE IF days <= 7 THEN "expiring"
                    ELSE "active"]

\* loadSSLInfo with "expiring" up to ten days ahead.
loadSSLInfoExpiringAtTen(ren, d) ==
    LET days == (ren[d] - Now) \div HoursPerDay
    IN  [enabled |-> TRUE, expiresAt |-> ren[d], days |-> days,
         status |-> IF days < 0 THEN "expired" ELSE IF days <= 10 THEN "expiring"
                    ELSE "active"]

\* loadSSLInfo: the entry of the map for domain d, whose renewal file holds
\* an expiry_date line.
loadSSLInfo(ren, d) == SSLInfoAt(ren[d], Now)

\* sslInfo.get(serverName) || { enabled: true, status: 'active' }
SSLInfoOrActive(ren, d) ==
    IF d \in DOMAIN ren /\ ren[d] # NoCert THEN loadSSLInfo(ren, d) ELSE ActiveSSL

\* vhostMap.set(vhost.serverName, vhost): a name already in the map keeps its
\* place and takes the new record.
MapSet(m, v) ==
    IF \E i \in 1..Len(m) : m[i].serverName = v.serverName
    THEN [i \in 1..Len(m) |-> IF m[i].serverName = v.serverName THEN v ELSE m[i]]
    ELSE Append(m, v)

RECURSIVE AddHttp(_, _)
AddHttp(m, vs) == IF vs = << >> THEN m ELSE AddHttp(MapSet(m, Head(vs)), Tail(vs))

\* A name of the map takes the certificate information, a new name is added
\* with it.
RECURSIVE MergeHttps(_, _, _)
MergeHttps(m, vs, ren) ==
    IF vs = << >> THEN m
    ELSE LET v == Head(vs)
             info == SSLInfoOrActive(ren, v.serverName)
         IN  IF \E i \in 1..Len(m) : m[i].serverName = v.serverName
             THEN MergeHttps([i \in 1..Len(m) |->
                                 IF m[i].serverName = v.serverName
                                 THEN [m[i] EXCEPT !.ssl = info] ELSE m[i]],
                             Tail(vs), ren)
             ELSE MergeHttps(Append(m, [v EXCEPT !.ssl = info]), Tail(vs), ren)

\* getAllVirtualHosts with each file's records classified before the merge.
getAllVirtualHostsClassifiedPerFile(fs, ren) ==
    MergeHttps(AddHttp(<< >>, classifySubdomains(parseApacheConfig(fs["http"], FALSE))),
               classifySubdomains(parseApacheConfig(fs["https"], FALSE)), ren)

\* getAllVirtualHosts of part_014: merge, then classifySubdomains.
getAllVirtualHosts(fs, ren) ==
    classifySubdomains(
        MergeHttps(AddHttp(<< >>, parseApacheConfig(fs["http"], FALSE)),
                   parseApacheConfig(fs["https"], FALSE), ren))

\* getAllVirtualHosts of parser.ts: merge of the records classified per name.
getAllVirtualHostsPerName(fs, ren) ==
    MergeHttps(AddHttp(<< >>, parseApacheConfig(fs["http"], TRUE)),
               parseApacheConfig(fs["https"], TRUE), ren)

\* ------------------------------------------------------------- groupDomains
\* domainsMap.set(vhost.serverName, ...) for every record that is not a
\* subdomain: a name already in the map keeps its place and takes the new
\* group.
RECURSIVE MainGroups(_, _)
MainGroups(m, vs) ==
    IF vs = << >> THEN m
    ELSE LET v == Head(vs)
             g == [name |-> v.serverName, type |-> v.type, mainHost |-> v,
                   subdomains |-> << >>]
             S == {i \in 1..Len(m) : m[i].name = v.serverName}
         IN  IF v.isSubdomain THEN MainGroups(m, Tail(vs))
             ELSE IF S = {} THEN MainGroups(Append(m, g), Tail(vs))
             ELSE MainGroups([m EXCEPT ![Min(S)] = g], Tail(vs))

\* parentDomain.subdomains.push(vhost) for every subdomain whose parent has
\* a group; a subdomain whose parent has none is passed over.
RECURSIVE AttachSubdomains(_, _)
AttachSubdomains(m, vs) ==
    IF vs = << >> THEN m
    ELSE LET v == Head(vs)
             S == {i \in 1..Len(m) : m[i].name = v.parentDomain}
         IN  IF v.isSubdomain /\ v.parentDomain # NoName /\ S # {}
             THEN AttachSubdomains(
                      [m EXCEPT ![Min(S)].subdomains = Append(@, v)], Tail(vs))
             ELSE AttachSubdomains(m, Tail(vs))

groupDomains(vhosts) == AttachSubdomains(MainGroups(<< >>, vhosts), vhosts)

\* ------------------------------------------------------------- requests and initial files
ExampleCom == << "example", "com" >>

ApiExampleCom == << "api", "example", "com" >>

ExampleComBr == << "example", "com", "br" >>

ShopOrg == << "shop", "org" >>

BadName == << "-bad", "com" >>

WwwShop == AbsPath(<< "var", "www", "shop" >>)

SrvSite == AbsPath(<< "srv", "site" >>)

EtcSite == AbsPath(<< "etc", "site" >>)

Dto(serverName, type, port, documentRoot) ==
    [serverName |-> serverName, type |-> type, port |-> port, documentRoot |-> documentRoot]

AddInputs ==
    { Dto(ApiExampleCom, "node", 3000, UndefPath),
      Dto(ShopOrg, "static", UndefPort, WwwShop),
      Dto(BadName, "node", 3000, UndefPath),
      Dto(ApiExampleCom, "node", UndefPort, UndefPath),
      Dto(ApiExampleCom, "node", 80, UndefPath),
      Dto(ApiExampleCom, "node", 70000, UndefPath),
      Dto(ShopOrg, "static", UndefPort, UndefPath),
      Dto(ShopOrg, "static", UndefPort, EtcSite),
      Dto(ShopOrg, "php", UndefPort, EtcSite),
      Dto(ShopOrg, "php", UndefPort, UndefPath) }

RemoveInputs == { ExampleCom, ApiExampleCom, BadName }

UpdateNames == { ExampleCom, ShopOrg, BadName }

UpdateInputs ==
    { [port |-> 4000, documentRoot |-> UndefPath],
      [port |-> UndefPort, documentRoot |-> SrvSite],
      [port |-> 80, documentRoot |-> UndefPath],
      [port |-> UndefPort, documentRoot |-> EtcSite] }

\* A plaintext file as two addDomain calls leave it.
HttpTwoNodes ==
    generateNodeVirtualHost(ExampleCom, 3000) \o generateNodeVirtualHost(ApiExampleCom, 3001)

\* example.com proxied, example.com.br static after it.
HttpNodeThenStatic ==
    generateNodeVirtualHost(ExampleCom, 3000)
    \o generateStaticVirtualHost(ExampleComBr, AbsPath(<< "var", "www", "br" >>))

\* A hand-edited file: a block for example.com that keeps the old name in a
\* comment, and a block for shop.org that proxies to a scheme-less target.
HttpHandEdited ==
    << Open(80), CSN(ApiExampleCom), SN(ExampleCom),
       Tok("dr", NoName, 0, AbsPath(<< "var", "www", "html" >>)), Close, NL,
       Open(80), SN(ShopOrg), Tok("pp", NoName, 3000, NoPath),
       Tok("ppr", NoName, 3000, NoPath), Close, NL >>

\* The TLS file as certbot writes it for example.com.
HttpsExample ==
    << Open(443), SN(ExampleCom), Tok("pp", NoName, 3000, UrlPath),
       Tok("ppr", NoName, 3000, UrlPath), Tok("sslcf", ExampleCom, 0, NoPath),
       Close, NL >>

InitHttp == { Absent, File(HttpTwoNodes), File(HttpNodeThenStatic), File(HttpHandEdited) }

InitHttps == { Absent, File(HttpsExample) }

\* Uploaded texts: one block, the same text with \r\n line ends, and a text
\* with no block.
UploadOne == generateNodeVirtualHost(ShopOrg, 3000)

WithCRLF(c) == [i \in 1..Len(c) |-> IF c[i].k = "nl" THEN CRNL ELSE c[i]]

Uploads == { UploadOne, WithCRLF(UploadOne), << NL >> }

NoOp ==
    [op |-> "none", name |-> NoName, ftype |-> "", upload |-> << >>,
     req |-> NoReq, pre |-> [f \in Paths |-> Absent], res |-> "", failed |-> "", carries |-> {},
     cmds |-> << >>, test |-> NoTest, checked |-> [f \in Paths |-> Absent]]

\* The domains a renewal file may exist for.
CertNames == { ExampleCom, ApiExampleCom }

\* No renewal metadata at all.
NoRenewal == [d \in CertNames |-> NoCert]

\* expiry_date of a renewal file: ten days ahead, ten days and five hours
\* ahead, three days ahead, one hour ago, eight days ahead, seven days ahead,
\* this very hour; or no such line.
Expiries ==
    { NoCert, Now + 10 * HoursPerDay, Now + 10 * HoursPerDay + 5,
      Now + 3 * HoursPerDay, Now - 1, Now + 8 * HoursPerDay,
      Now + 7 * HoursPerDay, Now }

\* Date.now() at a call of loadSSLInfo alone.
Nows == { Now, Now + 1, Now + HoursPerDay - 1, Now + HoursPerDay + 1 }

\* Files for the reads: also a plaintext file with api.example.com alone and
\* with example.com alone, and a TLS file with api.example.com alone.
HttpsApi ==
    << Open(443), SN(ApiExampleCom), Tok("pp", NoName, 3001, UrlPath),
       Tok("ppr", NoName, 3001, UrlPath), Tok("sslcf", ApiExampleCom, 0, NoPath),
       Close, NL >>

ReadHttp ==
    { Absent, File(HttpTwoNodes), File(HttpHandEdited),
      File(generateNodeVirtualHost(ApiExampleCom, 3001)),
      File(generateNodeVirtualHost(ExampleCom, 3000)) }

ReadHttps == { Absent, File(HttpsExample), File(HttpsApi) }

\* Paths given to validateDocumentRoot: the text is "/" (if abs) followed by
\* the segments joined by "/"; a relative path starts with a non-empty segment.
PathSegs == { "", ".", "..", "etc", "usr", "bin", "var", "www" }

PathInputs ==
    { p \in [abs : BOOLEAN, segs : UNION {[1..n -> PathSegs] : n \in 0..MaxSegs}] :
        p.abs \/ (p.segs # << >> /\ p.segs[1] # "") }

\* The calls in flight: process 1 adds shop.org as a node site, process 2
\* api.example.com as a static site.
Procs == {1, 2}

ConcurrentDto(p) ==
    IF p = 1 THEN Dto(ShopOrg, "node", 4000, UndefPath)
    ELSE Dto(ApiExampleCom, "static", UndefPort, SrvSite)

IdleProc ==
    [pc |-> "idle", tempPath |-> 0, content |-> << >>, copied |-> Absent,
     wrote |-> FALSE, thrown |-> FALSE]

\* No call in flight, no temporary file.
EngineIdle ==
    /\ proc = [p \in Procs |-> IdleProc]
    /\ tmpfs = [t \in 0..MaxClock |-> Absent]
    /\ clock = 0
    /\ overlap = FALSE

\* const logs: LogEntry[] = []
LogEmpty ==
    /\ logs = << >>
    /\ logged = [n |-> 0, cleared |-> 0]

Init ==
    /\ EngineIdle
    /\ LogEmpty
    /\ files \in [Paths -> InitHttp \cup InitHttps]
    /\ files["http"] \in InitHttp
    /\ files["https"] \in InitHttps
    /\ last = NoOp
    /\ nops = 0
    /\ renewal = NoRenewal
    /\ call = NoCall

Add ==
    \E dto \in AddInputs :
        /\ CountKind(files["http"].c, "open") < MaxBlocks
        /\ AddDomain(dto)

Remove == \E serverName \in RemoveInputs : RemoveDomain(serverName)

Update == \E serverName \in UpdateNames, dto \in UpdateInputs : UpdateDomain(serverName, dto)

\* An upload of one of the texts above, or of the text the file holds.
Replace ==
    \E type \in Paths :
        \E content \in Uploads \cup (IF files[type].ex THEN {files[type].c} ELSE {}) :
            ReplaceConfigFile(type, content)

\* The route handler answers the request (res.json) and the engine is idle.
Respond ==
    /\ last.op # "none"
    /\ last' = NoOp
    /\ UNCHANGED << files, nops, renewal, call, engineVars, logVars >>

\* The reads are taken of the files before the first operation and of the
\* files an addDomain has just left.
ReadPoint == nops = 0 \/ last.op = "add"

\* GET /vhosts: the read of part_014.
Read ==
    /\ ReadPoint
    /\ call' = [fn |-> "getAllVirtualHosts", arg |-> << >>,
                out |-> getAllVirtualHosts(files, renewal)]
    /\ UNCHANGED << files, last, nops, renewal, engineVars, logVars >>

\* The read of parser.ts.
ReadPerName ==
    /\ ReadPoint
    /\ call' = [fn |-> "getAllVirtualHostsPerName", arg |-> << >>,
                out |-> getAllVirtualHostsPerName(files, renewal)]
    /\ UNCHANGED << files, last, nops, renewal, engineVars, logVars >>

Next == Add \/ Remove \/ Update \/ Replace \/ Respond \/ Read \/ ReadPerName

Spec == Init /\ [][Next]_vars

\* The reads alone, over files and renewal metadata of every shape above.
ReadInit ==
    /\ EngineIdle
    /\ LogEmpty
    /\ files \in [Paths -> ReadHttp \cup ReadHttps]
    /\ files["http"] \in ReadHttp
    /\ files["https"] \in ReadHttps
    /\ renewal \in [CertNames -> Expiries]
    /\ last = NoOp
    /\ nops = 0
    /\ call = NoCall

\* loadSSLInfo called at time now: the map it returns, NoSSL standing for a
\* domain the map has no entry for.
LoadSSLInfo ==
    \E now \in Nows :
        /\ call' = [fn |-> "loadSSLInfo", arg |-> now,
                    out |-> [d \in CertNames |->
                               IF renewal[d] = NoCert THEN NoSSL
                               ELSE SSLInfoAt(renewal[d], now)]]
        /\ UNCHANGED << files, last, nops, renewal, engineVars, logVars >>

\* GET /domains: groupDomains applied to what a read returns.
GroupDomains ==
    \E vhosts \in { getAllVirtualHosts(files, renewal),
                    getAllVirtualHostsPerName(files, renewal) } :
        /\ call' = [fn |-> "groupDomains", arg |-> vhosts,
                    out |-> groupDomains(vhosts)]
        /\ UNCHANGED << files, last, nops, renewal, engineVars, logVars >>

ReadNext == Read \/ ReadPerName \/ LoadSSLInfo \/ GroupDomains

ReadSpec == ReadInit /\ [][ReadNext]_vars

\* Blocks for detectDomainType: example.com with every choice among a
\* ProxyPass line, a handler naming php, a handler naming cgi, a php_value
\* line, a DocumentRoot line and a certificate line.
KindOptions ==
    << Tok("pp", NoName, 3000, UrlPath), Tok("hdl", NoName, 0, PhpHandler),
       Tok("hdl", NoName, 0, CgiHandler), Tok("phpd", NoName, 0, NoPath),
       Tok("dr", NoName, 0, SrvSite), Tok("sslcf", ExampleCom, 0, NoPath) >>

RECURSIVE Chosen(_, _)
Chosen(S, i) ==
    IF i > Len(KindOptions) THEN << >>
    ELSE (IF i \in S THEN << KindOptions[i] >> ELSE << >>) \o Chosen(S, i + 1)

KindBlocks ==
    { << Open(80), SN(ExampleCom) >> \o Chosen(S, 1) \o << Close >> :
        S \in SUBSET (1..Len(KindOptions)) }

\* Texts for extractVirtualHostBlocks: up to MaxParts pieces in a row, each
\* a whole block of example.com, a whole block of api.example.com, or a
\* block of shop.org whose closing tag is missing.
UnclosedShop ==
    << NL, Open(80), SN(ShopOrg), Tok("dr", NoName, 0, SrvSite), NL >>

ExtractParts ==
    { generateNodeVirtualHost(ExampleCom, 3000),
      generateStaticVirtualHost(ApiExampleCom, SrvSite), UnclosedShop }

RECURSIVE Concat(_)
Concat(ps) == IF ps = << >> THEN << >> ELSE Head(ps) \o Concat(Tail(ps))

ExtractInputs ==
    { Concat(ps) : ps \in UNION {[1..n -> ExtractParts] : n \in 0..MaxParts} }

\* Lines for parseDirectives: a CustomLog line that is continued, continued
\* lines that start with "/" or with a word, a plain Options line, the tags
\* of a Directory sub-block and an empty line.
LineAlphabet ==
    { Line("dir", "customlog", <<"logs/a">>, TRUE),
      Line("text", "", <<"/b">>, TRUE),
      Line("text", "", <<"/c">>, FALSE),
      Line("dir", "combined", << >>, TRUE),
      Line("dir", "env", <<"prod">>, FALSE),
      Line("dir", "options", <<"Indexes">>, FALSE),
      Line("nopen", "directory", <<"<Directory>">>, FALSE),
      Line("nclose", "directory", <<"</Directory>">>, FALSE),
      Line("blank", "", << >>, FALSE) }

LineInputs == UNION {[1..n -> LineAlphabet] : n \in 0..MaxLines}

\* validateDocumentRoot applied to every path of PathInputs.
ValidateDocumentRoot ==
    \E path \in PathInputs :
        /\ call.fn = NoCall.fn
        /\ call' = [fn |-> "validateDocumentRoot", arg |-> path,
                    out |-> validateDocumentRoot(path)]
        /\ UNCHANGED << files, last, nops, renewal, engineVars, logVars >>

ValidationInit ==
    /\ EngineIdle
    /\ LogEmpty
    /\ files = [f \in Paths |-> Absent]
    /\ renewal = NoRenewal
    /\ last = NoOp
    /\ nops = 0
    /\ call = NoCall

ValidationNext == ValidateDocumentRoot

ValidationSpec == ValidationInit /\ [][ValidationNext]_vars

\* The pure functions of the parser, each applied once to one input.
DetectDomainType ==
    \E block \in KindBlocks :
        /\ call.fn = NoCall.fn
        /\ call' = [fn |-> "detectDomainType", arg |-> block,
                    out |-> detectDomainType(block)]
        /\ UNCHANGED << files, last, nops, renewal, engineVars, logVars >>

ExtractVirtualHostBlocks ==
    \E content \in ExtractInputs :
        /\ call.fn = NoCall.fn
        /\ call' = [fn |-> "extractVirtualHostBlocks", arg |-> content,
                    out |-> extractVirtualHostBlocks(content)]
        /\ UNCHANGED << files, last, nops, renewal, engineVars, logVars >>

ParseDirectives ==
    \E lines \in LineInputs :
        /\ call.fn = NoCall.fn
        /\ call' = [fn |-> "parseDirectives", arg |-> lines,
                    out |-> parseDirectives(lines)]
        /\ UNCHANGED << files, last, nops, renewal, engineVars, logVars >>

ParserInit == ValidationInit

ParserNext == DetectDomainType \/ ExtractVirtualHostBlocks \/ ParseDirectives

ParserSpec == ParserInit /\ [][ParserNext]_vars

\* ------------------------------------------------------------- addDomain calls in flight together
\* Between two awaits a call runs alone; the commands it awaits (cp, chmod,
\* rm, configtest, reload, certbot) run at any later moment, in any order
\* with the steps of the other call. The requests are valid, so the checks
\* of addDomain pass.
VhostConfigOf(p) ==
    IF ConcurrentDto(p).type = "node"
    THEN generateNodeVirtualHost(ConcurrentDto(p).serverName, ConcurrentDto(p).port)
    ELSE generateStaticVirtualHost(ConcurrentDto(p).serverName,
                                   ConcurrentDto(p).documentRoot)

InFlight(q) == proc[q].pc \notin {"idle", "done"}

\* addDomain up to its first await: the file is read, the new text built,
\* the temporary file named after Date.now() and written, sudo cp started.
StartAdd(p) ==
    /\ proc[p].pc = "idle"
    /\ LET currentConfig == IF files["http"].ex THEN files["http"].c ELSE << >>
           newConfig == AppendConfig(currentConfig, VhostConfigOf(p))
       IN  /\ proc' = [proc EXCEPT ![p] = [IdleProc EXCEPT !.pc = "cp",
                                              !.tempPath = clock,
                                              !.content = newConfig]]
           /\ tmpfs' = [tmpfs EXCEPT ![clock] = File(newConfig)]
    /\ overlap' = (overlap \/ \E q \in Procs \ {p} : InFlight(q))
    /\ UNCHANGED << files, last, nops, renewal, call, clock, logVars >>

\* sudo cp tempPath filePath: what the temporary file holds now goes onto
\* the target; the command fails when the temporary file is gone, and may
\* fail otherwise.
CopyStep(p) ==
    /\ proc[p].pc = "cp"
    /\ \E ok \in (IF tmpfs[proc[p].tempPath].ex THEN BOOLEAN ELSE {FALSE}) :
          IF ok
          THEN /\ files' = [files EXCEPT !["http"] = tmpfs[proc[p].tempPath]]
               /\ proc' = [proc EXCEPT ![p].pc = "chmod",
                                       ![p].copied = tmpfs[proc[p].tempPath]]
          ELSE /\ proc' = [proc EXCEPT ![p].pc = "rm", ![p].thrown = TRUE]
               /\ UNCHANGED files
    /\ UNCHANGED << last, nops, renewal, call, tmpfs, clock, overlap, logVars >>

\* sudo chmod 644 filePath
ChmodStep(p) ==
    /\ proc[p].pc = "chmod"
    /\ \E ok \in BOOLEAN :
          proc' = [proc EXCEPT ![p].pc = "rm", ![p].thrown = ~ok]
    /\ UNCHANGED << files, last, nops, renewal, call, tmpfs, clock, overlap, logVars >>

\* finally: rm -f tempPath; then writeProtectedFile returns, or raises what
\* the copy or chmod raised.
RemoveTemp(p) ==
    /\ proc[p].pc = "rm"
    /\ tmpfs' = [tmpfs EXCEPT ![proc[p].tempPath] = Absent]
    /\ proc' = [proc EXCEPT ![p].pc = IF proc[p].thrown THEN "done" ELSE "configtest",
                            ![p].wrote = ~proc[p].thrown]
    /\ UNCHANGED << files, last, nops, renewal, call, clock, overlap, logVars >>

\* apachectl configtest, systemctl reload, certbot: each succeeds and the
\* call goes on, or fails and the call raises.
AfterWrite(p) ==
    /\ proc[p].pc \in {"configtest", "reload", "certbot"}
    /\ \E ok \in BOOLEAN :
          proc' = [proc EXCEPT ![p].pc =
                      IF ~ok THEN "done"
                      ELSE IF proc[p].pc = "configtest" THEN "reload"
                      ELSE IF proc[p].pc = "reload" THEN "certbot"
                      ELSE "done",
                   ![p].thrown = ~ok]
    /\ UNCHANGED << files, last, nops, renewal, call, tmpfs, clock, overlap, logVars >>

\* A millisecond passes.
Tick ==
    /\ clock < MaxClock
    /\ clock' = clock + 1
    /\ UNCHANGED << files, last, nops, renewal, call, proc, tmpfs, overlap, logVars >>

ConcurrentInit ==
    /\ EngineIdle
    /\ LogEmpty
    /\ files \in [Paths -> {Absent, File(generateNodeVirtualHost(ExampleCom, 3000))}]
    /\ files["https"] = Absent
    /\ renewal = NoRenewal
    /\ last = NoOp
    /\ nops = 0
    /\ call = NoCall

ConcurrentNext ==
    \/ \E p \in Procs : StartAdd(p)
    \/ \E p \in Procs : CopyStep(p)
    \/ \E p \in Procs : ChmodStep(p)
    \/ \E p \in Procs : RemoveTemp(p)
    \/ \E p \in Procs : AfterWrite(p)
    \/ Tick

ConcurrentSpec == ConcurrentInit /\ [][ConcurrentNext]_vars

\* ------------------------------------------------------------- logger
\* const MAX_LOGS = 500
MAX_LOGS == 500

\* writeLog that drops the entry just pushed instead of the oldest.
writeLogDropNewest(buf, entry) ==
    IF Len(buf) + 1 > MAX_LOGS THEN buf ELSE Append(buf, entry)

\* logs.push(entry); if (logs.length > MAX_LOGS) logs.shift()
writeLog(buf, entry) ==
    IF Len(Append(buf, entry)) > MAX_LOGS THEN Tail(Append(buf, entry))
    ELSE Append(buf, entry)

\* An entry is written; an entry is named by its number in write order.
WriteLog ==
    /\ logged.n < MaxWrites
    /\ logs' = writeLog(logs, logged.n + 1)
    /\ logged' = [logged EXCEPT !.n = logged.n + 1]
    /\ UNCHANGED << files, last, nops, renewal, call, engineVars >>

\* clearLogs: logs.length = 0
ClearLogs ==
    /\ logs' = << >>
    /\ logged' = [logged EXCEPT !.cleared = logged.n]
    /\ UNCHANGED << files, last, nops, renewal, call, engineVars >>

LogInit == ValidationInit

LogNext == WriteLog \/ ClearLogs

LogSpec == LogInit /\ [][LogNext]_vars

\* ============================================================= properties
Mutations == {"add", "update", "remove", "replace"}

\* The commands named c that the last operation ran, by position.
Ran(c) == {i \in 1..Len(last.cmds) : last.cmds[i].c = c}

ReloadInvoked == Ran("reload") # {}

\* A file write of the last operation: staging, backup or commit.
WriteCmds == {"writeTemp", "cpBackup", "cpCommit", "cpError", "cpRestore", "chmod"}

NoFileWrite == \A i \in 1..Len(last.cmds) : last.cmds[i].c \notin WriteCmds

\* Every copy of the rollback path that ran succeeded.
RollbackCopiesOk ==
    \A i \in 1..Len(last.cmds) :
        last.cmds[i].c \in {"cpRestore", "cpError", "cpBackup"} => last.cmds[i].ok

\* Every command of the last operation succeeded.
AllCommandsOk == \A i \in 1..Len(last.cmds) : last.cmds[i].ok

\* The syntax check passed, by its "Syntax OK" marker.
SyntaxOK == last.test.ran /\ last.test.marker

BlocksOf(file) == extractVirtualHostBlocks(file.c)

\* Block b is one of the blocks of the file.
BlockKept(b, file) == \E i \in 1..Len(BlocksOf(file)) : BlocksOf(file)[i] = b

\* Every block of the file before the operation that does not declare the
\* name is a block of the file after it.
OtherBlocksKept(f, name) ==
    \A i \in 1..Len(BlocksOf(last.pre[f])) :
        ~Declares(BlocksOf(last.pre[f])[i], name)
            => BlockKept(BlocksOf(last.pre[f])[i], files[f])

\* No line of the file holds a ServerName in a comment.
NoCommentedName(file) == ~HasKind(file.c, "csn")

\* C1: after any mutation operation, whatever the outcome of the external
\* commands, each configuration file either holds what it held before the
\* operation or holds a text on which the syntax check passed.
C1_FilesUnchangedOrChecked ==
    last.op \in Mutations =>
        \A f \in Paths :
            \/ files[f] = last.pre[f]
            \/ SyntaxOK /\ last.checked[f] = files[f]

\* C2: in replaceConfigFile, when the syntax check does not pass (here: even
\* with every copy of the rollback succeeding), the target file holds what it
\* held before, the error carries the validation output and the place of the
\* saved failing file, and no reload is invoked.
C2_ReplaceRollsBackOnSyntaxFailure ==
    (last.op = "replace" /\ last.test.ran /\ ~last.test.marker /\ RollbackCopiesOk) =>
        /\ files[last.ftype] = last.pre[last.ftype]
        /\ last.res = "ValidacaoFalhou"
        /\ {"validationOutput", "errorPath"} \subseteq last.carries
        /\ ~ReloadInvoked

\* C3: after removeDomain(target) succeeds, every block whose declared names
\* do not include the target is still in its file, byte-identical (here: for
\* files that hold no commented ServerName line, every command succeeding).
C3_RemoveKeepsOtherBlocks ==
    (last.op = "remove" /\ last.res = "ok" /\ AllCommandsOk
        /\ \A f \in Paths : NoCommentedName(last.pre[f])) =>
        \A f \in Paths : OtherBlocksKept(f, last.name)

\* C4: updateDomain(target, params) changes text only inside the block whose
\* declared name is the target: every other block of the plaintext file is
\* byte-identical afterwards.
C4_UpdateKeepsOtherBlocks ==
    (last.op = "update" /\ NoCommentedName(last.pre["http"])) =>
        OtherBlocksKept("http", last.name)

\* C5: an upload whose text equals, after newline normalisation, the text the
\* target file holds writes no file, reloads nothing and reports success
\* (here: with every command that runs succeeding).
C5_IdenticalUploadIsNoOp ==
    (last.op = "replace" /\ last.pre[last.ftype].ex /\ AllCommandsOk
        /\ NormalizeNewlines(last.upload) = NormalizeNewlines(last.pre[last.ftype].c)) =>
        /\ NoFileWrite
        /\ ~ReloadInvoked
        /\ last.res = "ok"

\* C6: in replaceConfigFile, when the syntax check passed and the reload
\* fails (here: even with every copy of the rollback succeeding), the target
\* file is restored from the backup, exactly one further reload is attempted,
\* and the operation raises an error.
C6_ReloadFailureRestores ==
    (last.op = "replace" /\ SyntaxOK /\ Ran("reload") # {}
        /\ ~last.cmds[Min(Ran("reload"))].ok /\ RollbackCopiesOk) =>
        /\ files[last.ftype] = last.pre[last.ftype]
        /\ Ran("cpRestore") # {}
        /\ Cardinality(Ran("reload")) = 2
        /\ last.res # "ok"

\* C7: when the privileged copy or the permission-set step of a mutation
\* fails, every file holds what it held before the operation and the error
\* carries the failing command's output.
C7_CopyFailureRollsBack ==
    (last.op \in Mutations /\ last.failed \in {"cpCommit", "chmod"}) =>
        /\ \A f \in Paths : files[f] = last.pre[f]
        /\ "cmdOutput" \in last.carries

\* C8: in every mutation operation the syntax check counts as passed, and the
\* operation goes on to the reload, iff the tool's output holds "Syntax OK",
\* whatever the exit code (removeDomain's exemption for a missing certificate
\* file set aside).
C8_MarkerDecidesSyntaxCheck ==
    (last.op \in Mutations /\ last.test.ran
        /\ ~(last.op = "remove" /\ last.test.text # {})) =>
        (ReloadInvoked <=> last.test.marker)

\* The error text of the failed syntax check names a missing certificate file.
MissingCertificateText == last.test.text \cap SSLPatterns # {}

C10_RemoveAbsentIsNotFound ==
    (last.op = "remove" /\ validateDomain(last.name)
        /\ \A f \in Paths : \A i \in 1..Len(BlocksOf(last.pre[f])) :
               ~Declares(BlocksOf(last.pre[f])[i], last.name)) =>
        /\ last.res = "DominioNaoEncontrado"
        /\ \A f \in Paths : files[f] = last.pre[f]
        /\ NoFileWrite
        /\ Ran("configtest") = {}
        /\ ~ReloadInvoked

\* The text the last addDomain appended to what the plaintext file held.
AppendedText ==
    LET before == IF last.pre["http"].ex THEN last.pre["http"].c ELSE << >>
    IN  SubSeq(files["http"].c, Len(before) + 1, Len(files["http"].c))

\* The plaintext file holds what it held before with one block declaring the
\* new name after it.
BlockAppended ==
    /\ files["http"].ex
    /\ IsPrefix(IF last.pre["http"].ex THEN last.pre["http"].c ELSE << >>,
                files["http"].c)
    /\ Len(extractVirtualHostBlocks(AppendedText)) = 1
    /\ Declares(extractVirtualHostBlocks(AppendedText)[1], last.name)

\* Command k ran and succeeded before position c of the command list.
SucceededBefore(k, c) == \E i \in Ran(k) : i < c /\ last.cmds[i].ok

SupportedKinds == {"node", "static"}

\* C12: when addDomain has committed and reloaded the new block and the
\* certificate issuance fails, the caller receives a successful result that
\* carries the certificate failure as a secondary error.
C12_IssuanceFailureIsPartialSuccess ==
    (last.op = "add" /\ last.req.type \in SupportedKinds
        /\ Ran("certbot") # {} /\ ~last.cmds[Min(Ran("certbot"))].ok) =>
        /\ last.res = "ok"
        /\ "certError" \in last.carries

\* The read that produced call.out, applied to other files.
ReadBy(fn, fs) ==
    IF fn = "getAllVirtualHosts" THEN getAllVirtualHosts(fs, renewal)
    ELSE getAllVirtualHostsPerName(fs, renewal)

ReadFns == {"getAllVirtualHosts", "getAllVirtualHostsPerName"}

\* A record without its classification.
Unclassified(v) == [v EXCEPT !.isSubdomain = FALSE, !.parentDomain = NoName]

\* The record matches the kind and the parameters of the request.
MatchesRequest(v, req) ==
    /\ v.type = req.type
    /\ req.type = "node" => v.port = req.port
    /\ req.type = "static" => v.documentRoot = req.documentRoot

\* C13: a read after a successful addDomain of a supported kind returns the
\* records a read of the files before it returns, each unchanged (raw block
\* text included), and exactly one more record, which carries the new name
\* and matches the kind and the parameters of the request.
C13_AddThenReadOneNewRecord ==
    (call.fn \in ReadFns /\ last.op = "add" /\ last.res = "ok"
        /\ last.req.type \in SupportedKinds) =>
        LET before == ReadBy(call.fn, last.pre)
            after == call.out
        IN  /\ Len(after) = Len(before) + 1
            /\ \A i \in 1..Len(before) : \E j \in 1..Len(after) :
                   Unclassified(after[j]) = Unclassified(before[i])
            /\ \E j \in 1..Len(after) :
                   /\ after[j].serverName = last.name
                   /\ MatchesRequest(after[j], last.req)
                   /\ \A i \in 1..Len(before) : before[i].serverName # last.name

\* The validation errors of the three operations.
ValidationErrors ==
    {"DominioInvalido", "PortaObrigatoria", "DocumentRootObrigatorio",
     "DocumentRootInvalido", "PortaInvalida", "PortaReservada"}

\* The port of the request is given and lies outside 1024..65535.
PortOutOfRange == last.req.port # UndefPort /\ last.req.port \notin 1024..65535

\* The content root of the request is given and does not pass validation.
UnsafeDocumentRoot ==
    last.req.documentRoot # UndefPath /\ ~validateDocumentRoot(last.req.documentRoot)

\* The last request carries an invalid name, or an out-of-range port or an
\* unsafe content root that the operation would write: addDomain writes the
\* port of a node request and the content root of every other request.
InvalidRequest ==
    \/ last.op \in {"add", "update", "remove"} /\ ~validateDomain(last.name)
    \/ last.op = "add" /\ last.req.type = "node" /\ PortOutOfRange
    \/ last.op = "add" /\ last.req.type # "node" /\ UnsafeDocumentRoot
    \/ last.op = "update" /\ (PortOutOfRange \/ UnsafeDocumentRoot)

\* C14: addDomain, updateDomain or removeDomain called with an invalid name,
\* an out-of-range port or an unsafe content root raises a validation error,
\* writes no file and invokes no command.
C14_InvalidInputTouchesNothing ==
    InvalidRequest =>
        /\ last.res \in ValidationErrors
        /\ last.cmds = << >>
        /\ files = last.pre

\* C15: the block an addDomain appends carries a routing-target port within
\* 1024..65535 or a content root that passes validateDocumentRoot, whatever
\* the payload.
C15_AppendedBlockIsValidated ==
    (last.op = "add" /\ files["http"] # last.pre["http"]) =>
        \/ \E i \in 1..Len(AppendedText) :
               AppendedText[i].k = "pp" /\ AppendedText[i].p \in 1024..65535
        \/ \E i \in 1..Len(AppendedText) :
               AppendedText[i].k = "dr" /\ validateDocumentRoot(AppendedText[i].d)

\* The location a path denotes: empty segments and "." name no directory.
Denoted(segs) == SelectSeq(segs, LAMBDA x : x \notin {"", "."})

\* C16: a path that validateDocumentRoot accepts is absolute, holds no
\* parent-traversal segment, and denotes no location equal to or under a
\* deny-listed system path.
C16_AcceptedPathIsSafe ==
    (call.fn = "validateDocumentRoot" /\ call.out) =>
        /\ call.arg.abs
        /\ \A i \in 1..Len(call.arg.segs) : call.arg.segs[i] # ".."
        /\ \A fb \in forbiddenPaths : ~IsPrefix(fb, Denoted(call.arg.segs))

\* The last two labels of a name.
LastTwoLabels(name) == SubSeq(name, Len(name) - 1, Len(name))

\* The name has more than two labels and a record of the read carries its
\* last two labels as its name.
HasParentRecord(name) ==
    /\ Len(name) > 2
    /\ \E j \in 1..Len(call.out) : call.out[j].serverName = LastTwoLabels(name)

\* C17: in every read result a record is a subdomain iff its name has more
\* than two labels and a record of its last two labels exists in the result;
\* parentDomain is set exactly then, to that name.
C17_SubdomainIffParentExists ==
    call.fn \in ReadFns =>
        \A i \in 1..Len(call.out) :
            /\ call.out[i].isSubdomain <=> HasParentRecord(call.out[i].serverName)
            /\ call.out[i].parentDomain =
                   IF HasParentRecord(call.out[i].serverName)
                   THEN LastTwoLabels(call.out[i].serverName) ELSE NoName

\* A block of the file declares the name.
DeclaredIn(f, name) ==
    \E i \in 1..Len(BlocksOf(files[f])) : Declares(BlocksOf(files[f])[i], name)

\* The name of more than two labels occurs only in the TLS file and its
\* two-label parent only in the plaintext file.
SplitOverFiles(name) ==
    /\ Len(name) > 2
    /\ DeclaredIn("https", name) /\ ~DeclaredIn("http", name)
    /\ DeclaredIn("http", LastTwoLabels(name)) /\ ~DeclaredIn("https", LastTwoLabels(name))

\* C18: classification sees the merged set: a record of more than two labels
\* that occurs only in the TLS file is a subdomain of its two-label parent
\* when the parent occurs only in the plaintext file.
C18_ClassifiedAfterMerge ==
    call.fn \in ReadFns =>
        \A i \in 1..Len(call.out) :
            SplitOverFiles(call.out[i].serverName) =>
                /\ call.out[i].isSubdomain
                /\ call.out[i].parentDomain = LastTwoLabels(call.out[i].serverName)

\* A read of part_014 over a TLS file with api.example.com alone and a
\* plaintext file with example.com alone.
C18_Witness ==
    /\ call.fn = "getAllVirtualHosts"
    /\ \E i \in 1..Len(call.out) :
           /\ SplitOverFiles(call.out[i].serverName)
           /\ call.out[i].isSubdomain

\* The renewal metadata holds an entry for the name.
HasCertEntry(name) == name \in DOMAIN renewal /\ renewal[name] # NoCert

\* C19: in a read result every record whose name has no entry in the
\* certificate metadata has tls status none, whichever file its block is in.
C19_NoMetadataMeansNone ==
    call.fn \in ReadFns =>
        \A i \in 1..Len(call.out) :
            ~HasCertEntry(call.out[i].serverName) => call.out[i].ssl.status = "none"

\* floor((expiry - now) / 1 day)
DaysRemaining(name) == (renewal[name] - Now) \div HoursPerDay

\* expired if negative, expiring up to 7 days, else active
StatusOf(days) == IF days < 0 THEN "expired" ELSE IF days <= 7 THEN "expiring" ELSE "active"

\* C20: a domain declared in both files with renewal metadata has exactly one
\* record in the read result, and the record's tls status, expiry and days
\* remaining are those of the metadata; an expiry ten days ahead gives
\* status active and 10 days.
C20_MergedRecordCarriesMetadata ==
    call.fn \in ReadFns =>
        \A d \in CertNames :
            (HasCertEntry(d) /\ DeclaredIn("http", d) /\ DeclaredIn("https", d)) =>
                /\ Cardinality({i \in 1..Len(call.out) : call.out[i].serverName = d}) = 1
                /\ \A i \in 1..Len(call.out) :
                       call.out[i].serverName = d =>
                           /\ call.out[i].ssl.expiresAt = renewal[d]
                           /\ call.out[i].ssl.days = DaysRemaining(d)
                           /\ call.out[i].ssl.status = StatusOf(DaysRemaining(d))
                           /\ renewal[d] = Now + 10 * HoursPerDay =>
                                  /\ call.out[i].ssl.status = "active"
                                  /\ call.out[i].ssl.days = 10

\* A read over two files that both declare example.com, with an expiry ten
\* days ahead in its renewal metadata.
C20_Witness ==
    /\ call.fn \in ReadFns
    /\ DeclaredIn("http", ExampleCom) /\ DeclaredIn("https", ExampleCom)
    /\ renewal[ExampleCom] = Now + 10 * HoursPerDay
    /\ \E i \in 1..Len(call.out) :
           call.out[i].serverName = ExampleCom /\ call.out[i].ssl.days = 10

\* C23: for every expiry timestamp and current time, the loader's
\* daysRemaining is floor((expiry - now) / 1 day), the one integer n with
\* n days <= expiry - now < n + 1 days, and the status is expired if it is
\* negative, expiring if it is 0..7, active otherwise.
C23_DaysFloorAndStatus ==
    call.fn = "loadSSLInfo" =>
        \A d \in CertNames :
            renewal[d] # NoCert =>
                LET e == call.out[d]
                    diff == renewal[d] - call.arg
                IN  /\ e.days * HoursPerDay <= diff
                    /\ diff < (e.days + 1) * HoursPerDay
                    /\ (e.days < 0) = (e.status = "expired")
                    /\ (e.days >= 0 /\ e.days <= 7) = (e.status = "expiring")
                    /\ (e.days > 7) = (e.status = "active")
                    /\ e.status \in {"expired", "expiring", "active"}

\* A call at which one expiry lies an hour back (-1, expired) and the other
\* exactly seven days ahead (7, expiring).
C23_Witness ==
    /\ call.fn = "loadSSLInfo"
    /\ renewal[ExampleCom] = call.arg - 1
    /\ call.out[ExampleCom].days = 0 - 1
    /\ call.out[ExampleCom].status = "expired"
    /\ renewal[ApiExampleCom] = call.arg + 7 * HoursPerDay
    /\ call.out[ApiExampleCom].days = 7
    /\ call.out[ApiExampleCom].status = "expiring"

\* What a call of detectDomainType was given: the kinds of line in its block.
ArgHas(k) == HasKind(call.arg, k)

ArgHandlerMentionsPhp == \E i \in 1..Len(call.arg) : MentionsPhp(call.arg[i])

\* C26 as stated: proxy-backed whenever a proxy-routing directive is present,
\* otherwise legacy-unmanaged when a handler directive's value mentions the
\* legacy interpreter, otherwise static-content; TLS directives play no part.
C26_KindByFirstMatch ==
    call.fn = "detectDomainType" =>
        call.out = IF ArgHas("pp") THEN "node"
                   ELSE IF ArgHandlerMentionsPhp THEN "php" ELSE "static"

\* C26 amended: proxy-backed whenever a proxy-routing directive is present,
\* otherwise legacy-unmanaged when a handler directive's value mentions the
\* legacy interpreter or a directive named php_* is present, otherwise
\* static-content; TLS directives play no part.
C26_KindByFirstMatchOrPhpDirective ==
    call.fn = "detectDomainType" =>
        call.out = IF ArgHas("pp") THEN "node"
                   ELSE IF ArgHandlerMentionsPhp \/ ArgHas("phpd") THEN "php"
                   ELSE "static"

\* A block with a ProxyPass line, a php handler, a DocumentRoot and a
\* certificate line, classified node.
C26_Witness ==
    /\ call.fn = "detectDomainType"
    /\ ArgHas("pp") /\ ArgHandlerMentionsPhp /\ ArgHas("dr") /\ ArgHas("sslcf")
    /\ call.out = "node"

\* The tags of a text: an opening tag is closed when the next tag after it
\* is a closing tag, and then the text from the one to the other is a
\* well-formed block; an opening tag followed by another opening tag, or by
\* no tag at all, has no matching close.
IsTag(t) == t.k \in {"open", "close"}

NextTag(c, i) == Min({j \in (i + 1)..(Len(c) + 1) : j = Len(c) + 1 \/ IsTag(c[j])})

ClosedOpen(c, i) ==
    c[i].k = "open" /\ NextTag(c, i) <= Len(c) /\ c[NextTag(c, i)].k = "close"

UnclosedOpen(c, i) == c[i].k = "open" /\ ~ClosedOpen(c, i)

RECURSIVE WellFormedFrom(_, _)
WellFormedFrom(c, from) ==
    LET S == {i \in from..Len(c) : ClosedOpen(c, i)}
    IN  IF S = {} THEN << >>
        ELSE << SubSeq(c, Min(S), NextTag(c, Min(S))) >>
                 \o WellFormedFrom(c, NextTag(c, Min(S)) + 1)

\* C25: when a text holds an opening tag with no matching close followed by
\* well-formed blocks, the extractor yields exactly the well-formed blocks,
\* each with its own raw text, and nothing of the unclosed block.
C25_UnclosedBlockNotMerged ==
    ( /\ call.fn = "extractVirtualHostBlocks"
      /\ \E i \in 1..Len(call.arg) :
             /\ UnclosedOpen(call.arg, i)
             /\ \E j \in (i + 1)..Len(call.arg) : ClosedOpen(call.arg, j) ) =>
        call.out = WellFormedFrom(call.arg, 1)

\* The words of a line as written, the backslash left out.
LineText(l) == IF l.k = "dir" THEN <<l.name>> \o l.frag ELSE l.frag

\* C24: a directive line ending in the continuation marker, followed by two
\* more continued lines, gives exactly one directive, whose value is the
\* three fragments joined by single spaces, whatever the continued lines
\* hold, and nothing else.
C24_ContinuationIsOneDirective ==
    ( /\ call.fn = "parseDirectives"
      /\ Len(call.arg) = 3
      /\ call.arg[1].k = "dir" /\ call.arg[1].cont
      /\ call.arg[2].k # "blank" /\ call.arg[2].cont
      /\ call.arg[3].k # "blank" /\ ~call.arg[3].cont ) =>
        call.out = << << call.arg[1].name,
                         call.arg[1].frag \o LineText(call.arg[2])
                                          \o LineText(call.arg[3]) >> >>

\* In a text with no continued line every directive line declares one
\* directive of its name.
NoContinuation(lines) == \A i \in 1..Len(lines) : ~lines[i].cont

DeclaringLines(lines, name) ==
    {i \in 1..Len(lines) : lines[i].k = "dir" /\ lines[i].name = name}

StoredUnder(out, name) == {i \in 1..Len(out) : out[i][1] = name}

LineNames == {l.name : l \in {x \in LineAlphabet : x.k = "dir"}}

\* C30: each directive line contributes exactly one value to the directive
\* map, at the top level or inside a nested sub-block: the number of values
\* stored under a name equals the number of lines declaring that name
\* (taken over the texts with no continued line, where the lines that
\* declare a directive are plain to see).
C30_OneValuePerDirectiveLine ==
    (call.fn = "parseDirectives" /\ NoContinuation(call.arg)) =>
        \A name \in LineNames :
            Cardinality(StoredUnder(call.out, name))
                = Cardinality(DeclaringLines(call.arg, name))

\* The places a record has in the groups: as the main host of group g, or
\* as the k-th subdomain of group g.
PlacesAsMain(groups, v) == {g \in 1..Len(groups) : groups[g].mainHost = v}

PlacesAsSub(groups, v) ==
    {p \in (1..Len(groups)) \X (1..MaxBlocks + 2) :
        p[2] <= Len(groups[p[1]].subdomains) /\ groups[p[1]].subdomains[p[2]] = v}

\* C29: groupDomains places each record of a read exactly once, as the main
\* host of one group or in the subdomain list of one group whose name is
\* the record's parentDomain; none is dropped, none appears twice.
C29_EachRecordPlacedOnce ==
    call.fn = "groupDomains" =>
        \A i \in 1..Len(call.arg) :
            LET v == call.arg[i]
            IN  /\ Cardinality(PlacesAsMain(call.out, v))
                     + Cardinality(PlacesAsSub(call.out, v)) = 1
                /\ \A p \in PlacesAsSub(call.out, v) :
                       call.out[p[1]].name = v.parentDomain

\* The commands of the last operation from the i-th on, up to the next
\* write of a temporary file.
UntilNextStaging(cmds, i) ==
    {j \in (i + 1)..Len(cmds) :
        \A m \in (i + 1)..j : cmds[m].c # "writeTemp"}

\* C27: in replaceConfigFile and writeProtectedFile, once the temporary
\* file has been written, its removal is attempted before the operation
\* returns or raises, on every path: backup failure, copy failure,
\* syntax-check failure, reload failure and success.
C27_TempRemovalAlwaysAttempted ==
    last.op \in Mutations =>
        \A i \in 1..Len(last.cmds) :
            last.cmds[i].c = "writeTemp" =>
                \E j \in UntilNextStaging(last.cmds, i) :
                    last.cmds[j].c = "rmTemp" /\ last.cmds[j].f = last.cmds[i].f

\* An addDomain whose copy failed, with the temporary file written and its
\* removal attempted after the failed copy.
C27_Witness ==
    /\ last.op = "add"
    /\ last.failed = "cpCommit"
    /\ \E i, j \in 1..Len(last.cmds) :
           /\ i < j
           /\ last.cmds[i] = Cmd("cpCommit", "http", FALSE)
           /\ last.cmds[j].c = "rmTemp"

\* The entries written since the buffer was last cleared, the oldest left
\* out beyond MAX_LOGS: the numbers First + 1 .. logged.n.
FirstKept ==
    IF logged.n - MAX_LOGS > logged.cleared THEN logged.n - MAX_LOGS
    ELSE logged.cleared

\* C22: after any sequence of log writes and buffer clears the buffer holds
\* at most 500 entries, and they are the most recently written entries in
\* write order.
C22_BufferHoldsLatestEntries ==
    /\ Len(logs) <= MAX_LOGS
    /\ Len(logs) = logged.n - FirstKept
    /\ \A i \in 1..Len(logs) : logs[i] = FirstKept + i

\* The bound was exceeded and the oldest entry is the one that went.
C22_Witness ==
    /\ logged.n = MAX_LOGS + 1
    /\ logged.cleared = 0
    /\ Len(logs) = MAX_LOGS
    /\ logs[1] = 2
    /\ logs[MAX_LOGS] = MAX_LOGS + 1

\* The block a call adds is in the plaintext file.
BlockPresent(p) ==
    /\ files["http"].ex
    /\ \E i \in 1..Len(extractVirtualHostBlocks(files["http"].c)) :
           Declares(extractVirtualHostBlocks(files["http"].c)[i],
                    ConcurrentDto(p).serverName)

BothWrote == \A p \in Procs : proc[p].wrote

\* C21: no mutual exclusion between mutation operations. Run one at a time,
\* two addDomain calls for different valid domains that both completed
\* their write leave both blocks in the plaintext file; run concurrently
\* their read, stage and commit phases interleave and the file can end up
\* with the block of only one of them (the witness).
C21_OneAtATimeKeepsBoth ==
    (BothWrote /\ ~overlap) => \A p \in Procs : BlockPresent(p)

\* Lost update: the calls overlapped, both completed their write
\* successfully, and the file holds the block of only one of them.
C21_Witness ==
    /\ overlap
    /\ BothWrote
    /\ \E p \in Procs : BlockPresent(p)
    /\ \E p \in Procs : ~BlockPresent(p)

\* C28: the content a writeProtectedFile call copies onto its target is the
\* content passed to that same call, also when another call is in flight
\* and both took their staging path from the same clock value.
C28_CopiesOwnContent ==
    \A p \in Procs :
        proc[p].copied.ex => proc[p].copied.c = proc[p].content
====
